---- MODULE Spec2Model ----
(***************************************************************************)
(* Incremental cost-aggregation cache of claude-code-statusline            *)
(* (internal/cost): GetTokenStats, the cost cache snapshot, the per-file   *)
(* incremental scanner, the deduplicating accumulator, the advisory file   *)
(* lock, the price resolution and cost formula, the pricing cache with its *)
(* background refresh, and the aggregation of the day buckets.             *)
(*                                                                         *)
(* Units.  Instants (timestamps, modification times, the clock) are whole  *)
(* days.  Costs are integers in units of 1e-8 dollar, so that              *)
(* tokens / 1e6 * price is tokens * price * 100 and the 1.25 and 0.1       *)
(* factors stay integral.  A log file is a sequence of bytes; the bytes    *)
(* of one marshalled entry k are <<k,1>>, <<k,2>> followed by a newline.   *)
(***************************************************************************)
EXTENDS Integers, Sequences, FiniteSets, TLC

\* ------------------------------------------------------------------ bounds
MaxSize == 6    \* bytes a log file grows to
MaxRuns == 2    \* invocations of GetTokenStats in one behaviour
MaxFolds == 3   \* lines folded through processLogEntry in SpecEntry
StartDay == 3   \* the clock's value in the initial state
MaxTicks == 1   \* days the clock may advance

\* ------------------------------------------------------- program constants
\* acquireLock: for i := 0; i < 10; i++
LockAttempts == 10
\* cleanupOldDays: len(cache.ProcessedMessages) > 100000, scaled down so
\* that a log of MaxSize bytes can exceed it
DedupCap == 1
\* GetTokenStats: monthlyCutoff := now.AddDate(0, -1, 0), scaled to days of
\* the model's clock
MonthLen == 2

Paths == {"a.jsonl"}
Procs == {1, 2}

\* ------------------------------------------------------------ log entries
NL == <<0, 0>>

BadTime == -1

NoUsage == [input |-> 0, output |-> 0, cacheCreation |-> 0, cacheRead |-> 0]

Sonnet45 == <<"claude", "sonnet", "4", "5">>

\* types.LogEntry as decoded from one line; json = FALSE stands for a line
\* that is not valid JSON.  timestamp is the day the RFC3339 string denotes,
\* or BadTime when time.Parse rejects it.
Entry(json, ts, type, id, req, usage) ==
    [json |-> json, timestamp |-> ts, type |-> type, id |-> id,
     requestId |-> req, model |-> Sonnet45, usage |-> usage]

EntryTable ==
    << Entry(TRUE, 3, "assistant", <<"m1">>, <<"r1">>, [NoUsage EXCEPT !.input = 1]),
       Entry(TRUE, 3, "assistant", <<"m2">>, <<"r2">>, [NoUsage EXCEPT !.output = 1]),
       Entry(TRUE, 3, "assistant", <<"m1">>, <<"r1">>, NoUsage),
       Entry(FALSE, 3, "assistant", <<"m3">>, <<"r3">>, [NoUsage EXCEPT !.input = 1]),
       Entry(TRUE, 1, "assistant", <<"m3">>, <<"r3">>, [NoUsage EXCEPT !.cacheRead = 1]),
       Entry(TRUE, 3, "user", <<"m4">>, <<"r4">>, [NoUsage EXCEPT !.input = 1]),
       Entry(TRUE, 3, "assistant", <<>>, <<>>, [NoUsage EXCEPT !.input = 1]),
       Entry(TRUE, BadTime, "assistant", <<"m5">>, <<"r5">>, [NoUsage EXCEPT !.input = 1]),
       Entry(TRUE, 3, "assistant", <<"m1">>, <<>>, [NoUsage EXCEPT !.cacheCreation = 1]),
       Entry(TRUE, 3, "assistant", <<>>, <<"r1">>, [NoUsage EXCEPT !.input = 1]) >>

Kinds == 1..Len(EntryTable)

\* the entries the log's writer appends in Spec, in SpecRewrite and in
\* SpecClock
WriterKinds == {1, 2, 3, 4}
RewriteKinds == {1, 2}
ClockKinds == {1, 5}

\* json.Marshal(entry) followed by "\n", as the log's writer appends it
Format(k) == << <<k, 1>>, <<k, 2>>, NL >>

RECURSIVE Bytes(_)
Bytes(ks) == IF ks = <<>> THEN <<>> ELSE Format(Head(ks)) \o Bytes(Tail(ks))

\* ---------------------------------------------------------------- pricing
PricingTable == (Sonnet45 :> [Input |-> 3, Output |-> 15])

\* the segments of the model ids here that are made of digits only, and
\* those whose first byte is a digit ("4o" is one that is not all digits)
NumericSegs == {"4", "5", "20250514"}
DigitSegs == NumericSegs \cup {"4o"}
DateSegs == {"20250514"}

\* strings.Join(parts, "-") as the segments of the string it returns: no
\* part at all joins to "", the string of one empty segment
Join(parts) == IF parts = <<>> THEN <<"">> ELSE parts

stripVersion(model) == Join(SelectSeq(model, LAMBDA part : part \notin DigitSegs))

\* strings.LastIndex(model, "-20"), as the index of the segment it starts
LastDateIdx(model) ==
    LET hits == {i \in 2..Len(model) : model[i] \in DateSegs /\ ~(i = 2 /\ model[1] = "")}
    IN  IF hits = {} THEN 0 ELSE CHOOSE i \in hits : \A j \in hits : j <= i

\* types.ModelPricing{Input: 3.0, Output: 15.0}
DefaultPricing == [Input |-> 3, Output |-> 15]

getPricing_BaseFirst(model, pricing) ==
    LET idx == LastDateIdx(model)
        versioned == SubSeq(model, 1, idx - 1)
    IN  IF model \in DOMAIN pricing THEN pricing[model]
        ELSE IF stripVersion(model) \in DOMAIN pricing THEN pricing[stripVersion(model)]
        ELSE IF idx > 0 /\ versioned \in DOMAIN pricing THEN pricing[versioned]
        ELSE IF idx > 0 /\ stripVersion(versioned) \in DOMAIN pricing
             THEN pricing[stripVersion(versioned)]
        ELSE DefaultPricing

getPricing_ExactOnly(model, pricing) ==
    IF model \in DOMAIN pricing THEN pricing[model] ELSE DefaultPricing

getPricing(model, pricing) ==
    LET idx == LastDateIdx(model)
        versioned == SubSeq(model, 1, idx - 1)
    IN  IF model \in DOMAIN pricing THEN pricing[model]
        ELSE IF idx > 0 /\ versioned \in DOMAIN pricing THEN pricing[versioned]
        ELSE IF idx > 0 /\ stripVersion(versioned) \in DOMAIN pricing
             THEN pricing[stripVersion(versioned)]
        ELSE IF stripVersion(model) \in DOMAIN pricing THEN pricing[stripVersion(model)]
        ELSE DefaultPricing

calculateCost_OutputAtInputToo(model, inputTokens, outputTokens, cacheCreation, cacheRead, pricing) ==
    LET p == getPricing(model, pricing)
    IN  inputTokens * p.Input * 100
        + outputTokens * p.Input * 100
        + cacheCreation * p.Input * 125
        + cacheRead * p.Input * 10
        + outputTokens * p.Output * 100

calculateCost(model, inputTokens, outputTokens, cacheCreation, cacheRead, pricing) ==
    LET p == getPricing(model, pricing)
    IN  inputTokens * p.Input * 100
        + cacheCreation * p.Input * 125
        + cacheRead * p.Input * 10
        + outputTokens * p.Output * 100

\* ----------------------------------------------------------- the snapshot
\* CostCache with its three maps made and empty
EmptyCache == [DayCosts |-> <<>>, FileState |-> <<>>, ProcessedMessages |-> {}]

FileProcessState(modTime, size, offset) ==
    [ModTime |-> modTime, Size |-> size, Offset |-> offset]

\* m[k] += v on a Go map: a missing key reads as zero
MapAdd(m, k, v) ==
    IF k \in DOMAIN m THEN [m EXCEPT ![k] = @ + v] ELSE (k :> v) @@ m

MapPut(m, k, v) == (k :> v) @@ m

MapRestrict(m, keep) == [k \in keep |-> m[k]]

\* ------------------------------------------------------- processLogEntry
\* json.Unmarshal(line, &entry): the line's trailing newline is white space
LineBody(line) ==
    IF line # <<>> /\ line[Len(line)] = NL THEN SubSeq(line, 1, Len(line) - 1) ELSE line

JsonValid(line) ==
    LET b == LineBody(line)
    IN  /\ Len(b) = 2
        /\ b[1][1] = b[2][1]
        /\ b[1][2] = 1
        /\ b[2][2] = 2
        /\ b[1][1] \in Kinds
        /\ EntryTable[b[1][1]].json

Decode(line) == EntryTable[LineBody(line)[1][1]]

\* entry.Message.ID + ":" + entry.RequestID
DedupKey(entry) == entry.id \o <<":">> \o entry.requestId

processLogEntry_NoDedup(line, cache, pricing, monthlyCutoff) ==
    IF ~JsonValid(line) THEN cache
    ELSE LET entry == Decode(line)
             u == entry.usage
         IN  IF entry.timestamp = BadTime \/ entry.timestamp < monthlyCutoff THEN cache
             ELSE IF entry.type # "assistant" THEN cache
             ELSE IF DedupKey(entry) = <<":">> THEN cache
             ELSE IF u.input = 0 /\ u.output = 0 /\ u.cacheCreation = 0 /\ u.cacheRead = 0
                  THEN [cache EXCEPT !.ProcessedMessages = @ \cup {DedupKey(entry)}]
             ELSE [cache EXCEPT
                     !.ProcessedMessages = @ \cup {DedupKey(entry)},
                     !.DayCosts = MapAdd(@, entry.timestamp,
                         calculateCost(entry.model, u.input, u.output,
                                       u.cacheCreation, u.cacheRead, pricing))]

processLogEntry_NeedsBothIds(line, cache, pricing, monthlyCutoff) ==
    IF ~JsonValid(line) THEN cache
    ELSE LET entry == Decode(line)
             key == DedupKey(entry)
             u == entry.usage
             marked == [cache EXCEPT !.ProcessedMessages = @ \cup {key}]
         IN  IF entry.timestamp = BadTime \/ entry.timestamp < monthlyCutoff THEN cache
             ELSE IF entry.type # "assistant" THEN cache
             ELSE IF entry.id = <<>> \/ entry.requestId = <<>>
                     \/ key \in cache.ProcessedMessages THEN cache
             ELSE IF u.input = 0 /\ u.output = 0 /\ u.cacheCreation = 0 /\ u.cacheRead = 0
                  THEN marked
             ELSE [marked EXCEPT
                     !.DayCosts = MapAdd(@, entry.timestamp,
                         calculateCost(entry.model, u.input, u.output,
                                       u.cacheCreation, u.cacheRead, pricing))]

processLogEntry(line, cache, pricing, monthlyCutoff) ==
    IF ~JsonValid(line) THEN cache
    ELSE LET entry == Decode(line)
             key == DedupKey(entry)
             u == entry.usage
             marked == [cache EXCEPT !.ProcessedMessages = @ \cup {key}]
         IN  IF entry.timestamp = BadTime \/ entry.timestamp < monthlyCutoff THEN cache
             ELSE IF entry.type # "assistant" THEN cache
             ELSE IF key = <<":">> \/ key \in cache.ProcessedMessages THEN cache
             ELSE IF u.input = 0 /\ u.output = 0 /\ u.cacheCreation = 0 /\ u.cacheRead = 0
                  THEN marked
             ELSE [marked EXCEPT
                     !.DayCosts = MapAdd(@, entry.timestamp,
                         calculateCost(entry.model, u.input, u.output,
                                       u.cacheCreation, u.cacheRead, pricing))]

\* ------------------------------------------------------- processLogFile
\* the successive results of reader.ReadBytes('\n'): each line with its
\* newline, and the bytes after the last newline, if any, returned with EOF
RECURSIVE SplitLines(_)
SplitLines(b) ==
    IF b = <<>> THEN <<>>
    ELSE LET nls == {i \in 1..Len(b) : b[i] = NL}
         IN  IF nls = {} THEN <<b>>
             ELSE LET i == CHOOSE x \in nls : \A y \in nls : x <= y
                  IN  <<SubSeq(b, 1, i)>> \o SplitLines(SubSeq(b, i + 1, Len(b)))

\* lines that end with a newline: the ReadBytes calls that return no error
CompleteLines(lines) ==
    IF lines = <<>> THEN 0
    ELSE IF lines[Len(lines)][Len(lines[Len(lines)])] = NL THEN Len(lines)
    ELSE Len(lines) - 1

RECURSIVE FoldLines(_, _, _, _, _)
FoldLines(lines, n, cache, pricing, monthlyCutoff) ==
    IF n = 0 THEN cache
    ELSE processLogEntry(lines[n],
                         FoldLines(lines, n - 1, cache, pricing, monthlyCutoff),
                         pricing, monthlyCutoff)

\* the first n lines' bytes
RECURSIVE Bytes_Of(_, _)
Bytes_Of(lines, n) == IF n = 0 THEN <<>> ELSE Bytes_Of(lines, n - 1) \o lines[n]

\* what one call of processLogFile did, next to the snapshot it leaves
\* (opens: calls of os.Open; start: the offset read from; nlines: lines
\* handed to processLogEntry)
ScanResult(cache, status, start, nlines) ==
    [cache |-> cache, status |-> status, opens |-> IF status = "skipped" THEN 0 ELSE 1,
     start |-> start, nlines |-> nlines]

StartOffset_Always(state, exists, info) ==
    IF exists THEN state.Offset ELSE 0

StartOffset_NeedsModTime(state, exists, info) ==
    IF exists /\ state.Size < info.Size /\ state.ModTime # info.ModTime
    THEN state.Offset ELSE 0

StartOffset_SameSizeResumes(state, exists, info) ==
    IF exists /\ state.Size <= info.Size THEN state.Offset ELSE 0

StartOffset(state, exists, info) ==
    IF exists /\ state.Size < info.Size THEN state.Offset ELSE 0

Unchanged_Before(state, exists, info) ==
    exists /\ state.ModTime < info.ModTime /\ state.Size = info.Size

Unchanged(state, exists, info) ==
    exists /\ state.ModTime = info.ModTime /\ state.Size = info.Size

processLogFile_RecordOnError(path, info, cache, pricing, monthlyCutoff, content, openOk, errAt) ==
    LET exists == path \in DOMAIN cache.FileState
        state == IF exists THEN cache.FileState[path] ELSE FileProcessState(0, 0, 0)
        offset == StartOffset(state, exists, info)
        lines == SplitLines(SubSeq(content, offset + 1, Len(content)))
        n == IF errAt > 0 THEN errAt - 1 ELSE Len(lines)
        bytesRead == offset + Len(Bytes_Of(lines, n))
    IN  IF Unchanged(state, exists, info) THEN ScanResult(cache, "skipped", 0, 0)
        ELSE IF ~openOk THEN ScanResult(cache, "openfail", 0, 0)
        ELSE ScanResult(
                 [FoldLines(lines, n, cache, pricing, monthlyCutoff)
                    EXCEPT !.FileState =
                        MapPut(@, path, FileProcessState(info.ModTime, info.Size, bytesRead))],
                 IF errAt > 0 THEN "readerr" ELSE "done", offset, n)

processLogFile_AbortOnBadLine(path, info, cache, pricing, monthlyCutoff, content, openOk, errAt) ==
    LET exists == path \in DOMAIN cache.FileState
        state == IF exists THEN cache.FileState[path] ELSE FileProcessState(0, 0, 0)
        offset == StartOffset(state, exists, info)
        lines == SplitLines(SubSeq(content, offset + 1, Len(content)))
        bad == {n \in 1..Len(lines) : ~JsonValid(lines[n])}
        stop == IF bad = {} THEN Len(lines) + 1 ELSE CHOOSE n \in bad : \A m \in bad : n <= m
        bytesRead == IF offset >= Len(content) THEN offset ELSE Len(content)
    IN  IF Unchanged(state, exists, info) THEN ScanResult(cache, "skipped", 0, 0)
        ELSE IF ~openOk THEN ScanResult(cache, "openfail", 0, 0)
        ELSE IF errAt > 0
             THEN ScanResult(FoldLines(lines, errAt - 1, cache, pricing, monthlyCutoff),
                             "readerr", offset, errAt - 1)
        ELSE IF bad # {}
             THEN ScanResult(FoldLines(lines, stop - 1, cache, pricing, monthlyCutoff),
                             "done", offset, stop - 1)
        ELSE ScanResult(
                 [FoldLines(lines, Len(lines), cache, pricing, monthlyCutoff)
                    EXCEPT !.FileState =
                        MapPut(@, path, FileProcessState(info.ModTime, info.Size, bytesRead))],
                 "done", offset, Len(lines))

\* content: the file's bytes as the reads see them; openOk: os.Open succeeds;
\* errAt: 0, or the ReadBytes call that fails with an error other than EOF
processLogFile(path, info, cache, pricing, monthlyCutoff, content, openOk, errAt) ==
    LET exists == path \in DOMAIN cache.FileState
        state == IF exists THEN cache.FileState[path] ELSE FileProcessState(0, 0, 0)
        offset == StartOffset(state, exists, info)
        lines == SplitLines(SubSeq(content, offset + 1, Len(content)))
        bytesRead == IF offset >= Len(content) THEN offset ELSE Len(content)
    IN  IF Unchanged(state, exists, info) THEN ScanResult(cache, "skipped", 0, 0)
        ELSE IF ~openOk THEN ScanResult(cache, "openfail", 0, 0)
        ELSE IF errAt > 0
             THEN ScanResult(FoldLines(lines, errAt - 1, cache, pricing, monthlyCutoff),
                             "readerr", offset, errAt - 1)
        ELSE ScanResult(
                 [FoldLines(lines, Len(lines), cache, pricing, monthlyCutoff)
                    EXCEPT !.FileState =
                        MapPut(@, path, FileProcessState(info.ModTime, info.Size, bytesRead))],
                 "done", offset, Len(lines))

\* the number of ReadBytes calls a scan of content from offset makes
ReadCalls(content, offset) ==
    CompleteLines(SplitLines(SubSeq(content, offset + 1, Len(content)))) + 1

\* ------------------------------------------------------- the cache store
NoFile == [tag |-> "nofile"]
Truncated == [tag |-> "truncated"]

\* json.Marshal(cache)
Marshal(cache) ==
    [tag |-> "json", day_costs |-> cache.DayCosts, file_state |-> cache.FileState,
     processed_messages |-> cache.ProcessedMessages]

\* a JSON object that json.Marshal(cache) did not write: each of the three
\* members holds a map, null, or a value of another type (kind[f])
Fields == {"day_costs", "file_state", "processed_messages"}

ObjectFile(kind, c) ==
    [tag |-> "object", kind |-> kind, day_costs |-> c.DayCosts,
     file_state |-> c.FileState, processed_messages |-> c.ProcessedMessages]

\* json.Unmarshal reports an error: the content is no JSON document (here the
\* emptied file), or a member's value does not fit its field
ParseFails(file) ==
    \/ file.tag = "truncated"
    \/ file.tag = "object" /\ \E f \in Fields : file.kind[f] = "mistyped"

\* json.Unmarshal(data, cache) into the struct whose maps are made: a member
\* that is a map replaces the field, null sets it to nil, a value of another
\* type is skipped (the error is kept for the end, decoding goes on)
UnmarshalField(file, f, made) ==
    IF file.kind[f] = "map" THEN [nil |-> FALSE, val |-> file[f]]
    ELSE IF file.kind[f] = "null" THEN [nil |-> TRUE, val |-> made]
    ELSE [nil |-> FALSE, val |-> made]

\* if cache.X == nil { cache.X = make(...) }
EnsureMap(field, made) == IF field.nil THEN made ELSE field.val

loadCostCache(file) ==
    IF file.tag = "json"
    THEN [DayCosts |-> file.day_costs, FileState |-> file.file_state,
          ProcessedMessages |-> file.processed_messages]
    ELSE IF file.tag = "object"
    THEN [DayCosts |-> EnsureMap(UnmarshalField(file, "day_costs", <<>>), <<>>),
          FileState |-> EnsureMap(UnmarshalField(file, "file_state", <<>>), <<>>),
          ProcessedMessages |->
              EnsureMap(UnmarshalField(file, "processed_messages", {}), {})]
    ELSE EmptyCache

cleanupOldDays_OnlyMessages(cache, cutoff) ==
    LET kept == [cache EXCEPT !.DayCosts = MapRestrict(@, {d \in DOMAIN @ : d >= cutoff})]
    IN  IF Cardinality(cache.ProcessedMessages) > DedupCap
        THEN [kept EXCEPT !.ProcessedMessages = {}]
        ELSE kept

cleanupOldDays_DropsCutoffDay(cache, cutoff) ==
    LET kept == [cache EXCEPT !.DayCosts = MapRestrict(@, {d \in DOMAIN @ : d > cutoff})]
    IN  IF Cardinality(cache.ProcessedMessages) > DedupCap
        THEN [kept EXCEPT !.ProcessedMessages = {}, !.FileState = <<>>]
        ELSE kept

cleanupOldDays(cache, cutoff) ==
    LET kept == [cache EXCEPT !.DayCosts = MapRestrict(@, {d \in DOMAIN @ : d >= cutoff})]
    IN  IF Cardinality(cache.ProcessedMessages) > DedupCap
        THEN [kept EXCEPT !.ProcessedMessages = {}, !.FileState = <<>>]
        ELSE kept

\* ------------------------------------------------------------ aggregation
\* aggregateSliding: weeklyCutoff is now.AddDate(0, 0, -7)
WeekLen == 7

Modes == {"fixed", "sliding"}

TokenStats(daily, weekly, monthly) ==
    [DailyCost |-> daily, WeeklyCost |-> weekly, MonthlyCost |-> monthly]

NoStats == [tag |-> "none"]

\* the sum of the buckets of the days in keep
RECURSIVE SumDays(_, _)
SumDays(dayCosts, keep) ==
    IF keep = {} THEN 0
    ELSE LET d == CHOOSE x \in keep : TRUE
         IN  dayCosts[d] + SumDays(dayCosts, keep \ {d})

aggregateSliding_WeekExclusive(cache, t) ==
    LET days == DOMAIN cache.DayCosts
    IN  TokenStats(SumDays(cache.DayCosts, {d \in days : d >= t - 1}),
                   SumDays(cache.DayCosts, {d \in days : d > t - WeekLen}),
                   SumDays(cache.DayCosts, days))

aggregateSliding(cache, t) ==
    LET days == DOMAIN cache.DayCosts
    IN  TokenStats(SumDays(cache.DayCosts, {d \in days : d >= t - 1}),
                   SumDays(cache.DayCosts, {d \in days : d >= t - WeekLen}),
                   SumDays(cache.DayCosts, days))

\* now.Weekday(): day 0 of the clock is a Sunday
Weekday(t) == t % WeekLen

\* the first day of t's calendar month, in a calendar of months of MonthLen
\* days
MonthStart(t) == t - (t % MonthLen)

aggregateFixed(cache, t) ==
    LET days == DOMAIN cache.DayCosts
        weekday == IF Weekday(t) = 0 THEN WeekLen ELSE Weekday(t)
        weekStart == t - (weekday - 1)
    IN  TokenStats(SumDays(cache.DayCosts, {d \in days : d = t}),
                   SumDays(cache.DayCosts, {d \in days : d >= weekStart}),
                   SumDays(cache.DayCosts, {d \in days : d >= MonthStart(t)}))

aggregateStats_NilOnEmpty(cache, t, mode) ==
    IF cache.DayCosts = <<>> THEN NoStats
    ELSE IF mode = "sliding" THEN aggregateSliding(cache, t) ELSE aggregateFixed(cache, t)

aggregateStats(cache, t, mode) ==
    IF mode = "sliding" THEN aggregateSliding(cache, t) ELSE aggregateFixed(cache, t)

\* ------------------------------------------------------- the pricing cache
\* pricingCacheTTL, 24 hours
PricingTTL == 1

\* the table embedded in the binary
embeddedPricing == PricingTable

\* a table an earlier refresh left in pricing.json, and the table the
\* pricing URL serves now
CachedPricing == (Sonnet45 :> [Input |-> 6, Output |-> 30])
FetchedPricing == (Sonnet45 :> [Input |-> 9, Output |-> 45])

NoPricingFile == [tag |-> "nofile"]

PricingFile(modTime, models) == [tag |-> "json", modTime |-> modTime, models |-> models]

\* pricing.json holding a JSON object without the members of PricingData,
\* such as {}: json.Unmarshal accepts it and leaves Models nil
ShapelessPricingFile(modTime) == [tag |-> "object", modTime |-> modTime]

\* pricing.json opened with O_TRUNC and not yet written: it does not parse
EmptyPricingFile(modTime) == [tag |-> "truncated", modTime |-> modTime]

\* the table for this run, and whether go fetchAndCachePricing was started
loadPricing_AwaitRefresh(file, t) ==
    IF file.tag = "nofile" THEN [pricing |-> FetchedPricing, refresh |-> TRUE]
    ELSE IF t - file.modTime < PricingTTL
         THEN IF file.tag = "json"
              THEN [pricing |-> file.models, refresh |-> FALSE]
              ELSE IF file.tag = "object"
              THEN [pricing |-> <<>>, refresh |-> FALSE]
              ELSE [pricing |-> embeddedPricing, refresh |-> FALSE]
    ELSE [pricing |-> FetchedPricing, refresh |-> TRUE]

loadPricing(file, t) ==
    IF file.tag = "nofile" THEN [pricing |-> embeddedPricing, refresh |-> TRUE]
    ELSE IF t - file.modTime < PricingTTL
         THEN IF file.tag = "json"
              THEN [pricing |-> file.models, refresh |-> FALSE]
              ELSE IF file.tag = "object"
              THEN [pricing |-> <<>>, refresh |-> FALSE]
              ELSE [pricing |-> embeddedPricing, refresh |-> FALSE]
    ELSE [pricing |-> embeddedPricing, refresh |-> TRUE]

\* ================================================================= state
VARIABLES
    now,       \* the clock, in days
    written,   \* per path: the entries the log's writer has written so far
    fsize,     \* per path: the bytes of them that have reached the file
    mtime,     \* per path: the file's modification time
    disk,      \* the content of cost_cache.json
    held,      \* the processes holding the flock on cost_cache.lock
    pc,        \* per process: where its GetTokenStats call stands
    cache,     \* per process: the CostCache in memory
    cutoff,    \* per process: monthlyCutoff
    todo,      \* per process: index in WalkOrder of the next file of the walk
    info,      \* per process: the os.FileInfo the walk handed to the callback
    attempts,  \* per process: failed flock attempts of acquireLock
    scan,      \* what the running invocation's last call of processLogFile did
    runs,      \* invocations of GetTokenStats started so far
    acc,       \* SpecEntry: the snapshot processLogEntry folds into
    accPrev,   \* SpecEntry: the snapshot before the last fold
    hist,      \* SpecEntry: the lines folded so far
    accCutoff, \* SpecEntry: monthlyCutoff
    pricing,   \* per process: the table loadPricing returned
    pfile,     \* the content of pricing.json in the cache directory
    fetch,     \* per process: where its fetchAndCachePricing goroutine stands
    payload,   \* per process: the response body its goroutine holds
    stats,     \* per process: the TokenStats aggregateStats returned
    readAny,   \* per process: the cache file or a log line was read in this run
    call,      \* the last call of a function applied on its own, with its result
    lockfile,  \* Windows build: cost_cache.lock, whether it exists and is stale
    handles,   \* Windows build: the processes with an open handle of it
    wpc,       \* Windows build: per process, where it stands in acquireLock
    tries      \* Windows build: per process, the passes of acquireLock's loop

vars == <<now, written, fsize, mtime, disk, held, pc, cache, cutoff, todo, info,
          attempts, scan, runs, acc, accPrev, hist, accCutoff,
          pricing, pfile, fetch, payload, stats, readAny, call,
          lockfile, handles, wpc, tries>>

winVars == <<lockfile, handles, wpc, tries>>
envVars == <<now, written, fsize, mtime>>
entryVars == <<acc, accPrev, hist, accCutoff>>
priceVars == <<pricing, pfile, fetch, payload>>
outVars == <<stats, readAny>>
\* all but call
runVars == <<envVars, disk, held, pc, cache, cutoff, todo, info, attempts, scan, runs,
             entryVars, priceVars, outVars, winVars>>

\* all but winVars
unixVars == <<envVars, disk, held, pc, cache, cutoff, todo, info, attempts, scan, runs,
              entryVars, priceVars, outVars, call>>

\* filepath.Walk visits the directory's files in lexical order
WalkOrder == <<"a.jsonl">>

NoCall == [op |-> "none"]

NoScan == [path |-> "", status |-> "none", opens |-> 0, start |-> 0, nlines |-> 0]

FileBytes(p) == SubSeq(Bytes(written[p]), 1, fsize[p])

FileInfo(p) == [ModTime |-> mtime[p], Size |-> fsize[p]]

\* the processes of the Windows build's lock
WinProcs == {1, 2, 3}

\* cost_cache.lock is not there; it is there, created less than 30 seconds
\* ago or longer
NoLockFile == [exists |-> FALSE, stale |-> FALSE]
FreshLockFile == [exists |-> TRUE, stale |-> FALSE]

\* no invocation running
InitRunState ==
    /\ now = StartDay
    /\ held = {}
    /\ pc = [i \in Procs |-> "idle"]
    /\ cache = [i \in Procs |-> EmptyCache]
    /\ cutoff = [i \in Procs |-> 0]
    /\ todo = [i \in Procs |-> 0]
    /\ info = [i \in Procs |-> [ModTime |-> 0, Size |-> 0]]
    /\ attempts = [i \in Procs |-> 0]
    /\ scan = NoScan
    /\ runs = 0
    /\ acc = EmptyCache
    /\ accPrev = EmptyCache
    /\ hist = <<>>
    /\ pricing = [i \in Procs |-> <<>>]
    /\ fetch = [i \in Procs |-> "none"]
    /\ payload = [i \in Procs |-> "none"]
    /\ stats = [i \in Procs |-> NoStats]
    /\ readAny = [i \in Procs |-> FALSE]
    /\ call = NoCall
    /\ lockfile = NoLockFile
    /\ handles = {}
    /\ wpc = [i \in WinProcs |-> "idle"]
    /\ tries = [i \in WinProcs |-> 0]

\* no cache file yet, no invocation running
InitRun == InitRunState /\ disk = NoFile

\* pricing.json was refreshed today and holds the table of the embedded one
FreshPricing == pfile = PricingFile(StartDay, PricingTable)

Init ==
    /\ InitRun
    /\ FreshPricing
    /\ written = [p \in Paths |-> <<>>]
    /\ fsize = [p \in Paths |-> 0]
    /\ mtime = [p \in Paths |-> StartDay]
    /\ accCutoff = StartDay - MonthLen

\* ------------------------------------------------------- the log's writer
\* the writer marshals one more entry once the bytes of the one before are
\* all in the file; the new bytes are buffered, not yet in the file
WriteLine(p, k) ==
    /\ fsize[p] = Len(Bytes(written[p]))
    /\ fsize[p] < MaxSize
    /\ written' = [written EXCEPT ![p] = Append(@, k)]
    /\ UNCHANGED <<now, fsize, mtime, disk, held, pc, cache, cutoff, todo, info,
                   attempts, scan, runs, entryVars, priceVars, outVars, call, winVars>>

\* buffered bytes reach the file, up to any byte: the file grows to n bytes
Flush(p, n) ==
    /\ n > fsize[p]
    /\ n <= Len(Bytes(written[p]))
    /\ n <= MaxSize
    /\ fsize' = [fsize EXCEPT ![p] = n]
    /\ mtime' = [mtime EXCEPT ![p] = now]
    /\ UNCHANGED <<now, written, disk, held, pc, cache, cutoff, todo, info,
                   attempts, scan, runs, entryVars, priceVars, outVars, call, winVars>>

\* between two invocations the file is truncated, to be rewritten from its
\* start
Truncate(p) ==
    /\ fsize[p] > 0
    /\ \A i \in Procs : pc[i] = "idle"
    /\ written' = [written EXCEPT ![p] = <<>>]
    /\ fsize' = [fsize EXCEPT ![p] = 0]
    /\ mtime' = [mtime EXCEPT ![p] = now]
    /\ UNCHANGED <<now, disk, held, pc, cache, cutoff, todo, info,
                   attempts, scan, runs, entryVars, priceVars, outVars, call, winVars>>

Tick ==
    /\ now < StartDay + MaxTicks
    /\ now' = now + 1
    /\ UNCHANGED <<written, fsize, mtime, disk, held, pc, cache, cutoff, todo, info,
                   attempts, scan, runs, entryVars, priceVars, outVars, call, winVars>>

\* ---------------------------------------------------------- GetTokenStats
\* flock(LOCK_EX|LOCK_NB) by process i succeeds
FlockFree_Shared(i) == TRUE

FlockFree(i) == \A j \in Procs \ {i} : j \notin held

\* a new invocation: os.MkdirAll, then acquireLock opens the lock file
Start(i) ==
    /\ pc[i] = "idle"
    /\ fetch[i] = "none"
    /\ runs < MaxRuns
    /\ runs' = runs + 1
    /\ pc' = [pc EXCEPT ![i] = "lock"]
    /\ attempts' = [attempts EXCEPT ![i] = 0]
    /\ UNCHANGED <<envVars, disk, held, cache, cutoff, todo, info, scan, entryVars, priceVars, outVars, call, winVars>>

\* acquireLock: os.OpenFile of the lock file fails; the run proceeds without
LockOpenFail(i) ==
    /\ pc[i] = "lock"
    /\ attempts[i] = 0
    /\ pc' = [pc EXCEPT ![i] = "load"]
    /\ UNCHANGED <<envVars, disk, held, cache, cutoff, todo, info, attempts, scan,
                   runs, entryVars, priceVars, outVars, call, winVars>>

TryLock_NoGiveUp(i) ==
    /\ pc[i] = "lock"
    /\ IF FlockFree(i)
       THEN /\ held' = held \cup {i}
            /\ pc' = [pc EXCEPT ![i] = "load"]
            /\ UNCHANGED attempts
       ELSE /\ attempts' = [attempts EXCEPT ![i] = @ + 1]
            /\ UNCHANGED <<pc, held>>
    /\ UNCHANGED <<envVars, disk, cache, cutoff, todo, info, scan, runs, entryVars,
                   priceVars, outVars, call, winVars>>

\* acquireLock: one pass of the retry loop
TryLock(i) ==
    /\ pc[i] = "lock"
    /\ IF FlockFree(i)
       THEN /\ held' = held \cup {i}
            /\ pc' = [pc EXCEPT ![i] = "load"]
            /\ UNCHANGED attempts
       ELSE /\ attempts' = [attempts EXCEPT ![i] = @ + 1]
            /\ pc' = [pc EXCEPT ![i] = IF attempts[i] + 1 >= LockAttempts
                                       THEN "load" ELSE "lock"]
            /\ UNCHANGED held
    /\ UNCHANGED <<envVars, disk, cache, cutoff, todo, info, scan, runs, entryVars, priceVars, outVars, call, winVars>>

\* cache := loadCostCache(cacheFile), of the file as os.ReadFile returns it;
\* pricing := loadPricing(); now := time.Now(); monthlyCutoff
LoadFrom(i, file) ==
    /\ pc[i] = "load"
    /\ cache' = [cache EXCEPT ![i] = loadCostCache(file)]
    /\ readAny' = [readAny EXCEPT ![i] = file.tag \notin {"nofile", "truncated"}]
    /\ pricing' = [pricing EXCEPT ![i] = loadPricing(pfile, now).pricing]
    /\ fetch' = [fetch EXCEPT ![i] = IF loadPricing(pfile, now).refresh THEN "get" ELSE @]
    /\ cutoff' = [cutoff EXCEPT ![i] = now - MonthLen]
    /\ pc' = [pc EXCEPT ![i] = "cleanup"]
    /\ UNCHANGED <<envVars, disk, held, todo, info, attempts, scan, runs, entryVars,
                   pfile, payload, stats, call, winVars>>

Load(i) == LoadFrom(i, disk)

\* os.ReadFile of the cache file fails although the file is there
LoadUnreadable(i) == disk # NoFile /\ LoadFrom(i, NoFile)

Cleanup(i) ==
    /\ pc[i] = "cleanup"
    /\ cache' = [cache EXCEPT ![i] = cleanupOldDays(cache[i], cutoff[i])]
    /\ todo' = [todo EXCEPT ![i] = 1]
    /\ pc' = [pc EXCEPT ![i] = "walk"]
    /\ UNCHANGED <<envVars, disk, held, cutoff, info, attempts, scan, runs, entryVars, priceVars, outVars, call, winVars>>

AfterFile(i) == IF todo[i] >= Len(WalkOrder) THEN "save" ELSE "walk"

\* the walk stats its next file and calls the callback, which returns at
\* once for a file last modified before the cutoff
Stat(i) ==
    /\ pc[i] = "walk"
    /\ LET p == WalkOrder[todo[i]]
       IN  /\ info' = [info EXCEPT ![i] = FileInfo(p)]
           /\ IF mtime[p] < cutoff[i]
              THEN /\ pc' = [pc EXCEPT ![i] = AfterFile(i)]
                   /\ todo' = [todo EXCEPT ![i] = @ + 1]
              ELSE /\ pc' = [pc EXCEPT ![i] = "proc"]
                   /\ UNCHANGED todo
    /\ UNCHANGED <<envVars, disk, held, cache, cutoff, attempts, scan, runs, entryVars, priceVars, outVars, call, winVars>>

\* filepath.Walk cannot read the projects directory: the callback is called
\* once with the error, returns nil, and the walk ends
WalkFail(i) ==
    /\ pc[i] = "walk"
    /\ todo[i] = 1
    /\ pc' = [pc EXCEPT ![i] = "save"]
    /\ todo' = [todo EXCEPT ![i] = Len(WalkOrder) + 1]
    /\ UNCHANGED <<envVars, disk, held, cache, cutoff, info, attempts, scan, runs,
                   entryVars, priceVars, outVars, call, winVars>>

\* the callback's call of processLogFile on the file as it is by now
Process(i) ==
    /\ pc[i] = "proc"
    /\ LET p == WalkOrder[todo[i]]
           exists == p \in DOMAIN cache[i].FileState
           state == IF exists THEN cache[i].FileState[p] ELSE FileProcessState(0, 0, 0)
       IN  \E openOk \in BOOLEAN :
             \E errAt \in 0..ReadCalls(FileBytes(p), StartOffset(state, exists, info[i])) :
               LET r == processLogFile(p, info[i], cache[i], pricing[i], cutoff[i],
                                       FileBytes(p), openOk, errAt)
               IN  /\ cache' = [cache EXCEPT ![i] = r.cache]
                   /\ readAny' = [readAny EXCEPT ![i] = @ \/ r.nlines > 0]
                   /\ scan' = [path |-> p, status |-> r.status, opens |-> r.opens,
                               start |-> r.start, nlines |-> r.nlines]
    /\ pc' = [pc EXCEPT ![i] = AfterFile(i)]
    /\ todo' = [todo EXCEPT ![i] = @ + 1]
    /\ info' = [info EXCEPT ![i] = [ModTime |-> 0, Size |-> 0]]
    /\ UNCHANGED <<envVars, disk, held, cutoff, attempts, runs, entryVars, priceVars,
                   stats, call, winVars>>

\* saveCostCache: os.WriteFile opens the file with O_TRUNC, or fails to
SaveOpen(i) ==
    /\ pc[i] = "save"
    /\ \/ /\ disk' = Truncated
          /\ pc' = [pc EXCEPT ![i] = "write"]
       \/ /\ pc' = [pc EXCEPT ![i] = "aggregate"]
          /\ UNCHANGED disk
    /\ UNCHANGED <<envVars, held, cache, cutoff, todo, info, attempts, scan, runs,
                   entryVars, priceVars, outVars, call, winVars>>

\* saveCostCache: the marshalled snapshot is written, or the write fails
SaveWrite(i) ==
    /\ pc[i] = "write"
    /\ \/ disk' = Marshal(cache[i])
       \/ UNCHANGED disk
    /\ pc' = [pc EXCEPT ![i] = "aggregate"]
    /\ UNCHANGED <<envVars, held, cache, cutoff, todo, info, attempts, scan, runs,
                   entryVars, priceVars, outVars, call, winVars>>

\* stats := aggregateStats(cache, now), with now as read after the load and
\* the aggregation mode of the configuration
Aggregate(i) ==
    /\ pc[i] = "aggregate"
    /\ \E mode \in Modes :
         stats' = [stats EXCEPT ![i] = aggregateStats(cache[i], cutoff[i] + MonthLen, mode)]
    /\ pc' = [pc EXCEPT ![i] = "unlock"]
    /\ UNCHANGED <<envVars, disk, held, cache, cutoff, todo, info, attempts, scan, runs,
                   entryVars, priceVars, readAny, call, winVars>>

Return_NoRelease(i) ==
    /\ pc[i] = "unlock"
    /\ pc' = [pc EXCEPT ![i] = "idle"]
    /\ cache' = [cache EXCEPT ![i] = EmptyCache]
    /\ cutoff' = [cutoff EXCEPT ![i] = 0]
    /\ todo' = [todo EXCEPT ![i] = 0]
    /\ attempts' = [attempts EXCEPT ![i] = 0]
    /\ scan' = NoScan
    /\ pricing' = [pricing EXCEPT ![i] = <<>>]
    /\ stats' = [stats EXCEPT ![i] = NoStats]
    /\ readAny' = [readAny EXCEPT ![i] = FALSE]
    /\ UNCHANGED <<envVars, disk, held, info, runs, entryVars, pfile, fetch, payload, call, winVars>>

\* the return of stats, with the deferred releaseLock
Return(i) ==
    /\ pc[i] = "unlock"
    /\ held' = held \ {i}
    /\ pc' = [pc EXCEPT ![i] = "idle"]
    /\ cache' = [cache EXCEPT ![i] = EmptyCache]
    /\ cutoff' = [cutoff EXCEPT ![i] = 0]
    /\ todo' = [todo EXCEPT ![i] = 0]
    /\ attempts' = [attempts EXCEPT ![i] = 0]
    /\ scan' = NoScan
    /\ pricing' = [pricing EXCEPT ![i] = <<>>]
    /\ stats' = [stats EXCEPT ![i] = NoStats]
    /\ readAny' = [readAny EXCEPT ![i] = FALSE]
    /\ UNCHANGED <<envVars, disk, info, runs, entryVars, pfile, fetch, payload, call, winVars>>

\* the steps of one invocation after acquireLock has opened the lock file
Locked(i) ==
    \/ Start(i)
    \/ TryLock(i)
    \/ Load(i)
    \/ Cleanup(i)
    \/ Stat(i)
    \/ Process(i)
    \/ SaveOpen(i)
    \/ SaveWrite(i)
    \/ Aggregate(i)
    \/ Return(i)

Writer(kinds) ==
    \E p \in Paths :
        \/ \E k \in kinds : WriteLine(p, k)
        \/ \E n \in 1..MaxSize : Flush(p, n)

GetTokenStats(i) == Locked(i) \/ LockOpenFail(i)

\* one invocation at a time over append-only logs
Next == Locked(1) \/ Writer(WriterKinds)

Spec == Init /\ [][Next]_vars

\* one invocation at a time over logs that may also be truncated and
\* rewritten
NextRewrite == Locked(1) \/ Writer(RewriteKinds) \/ (\E p \in Paths : Truncate(p))

SpecRewrite == Init /\ [][NextRewrite]_vars

\* the snapshot an earlier invocation saved after it scanned a log holding
\* one line that is not JSON
ScannedBadLine ==
    [EmptyCache EXCEPT
       !.FileState = MapPut(<<>>, "a.jsonl",
                            FileProcessState(StartDay, Len(Format(4)), Len(Format(4))))]

\* no log scanned yet, or the log of ScannedBadLine scanned
InitResume ==
    /\ InitRunState
    /\ FreshPricing
    /\ mtime = [p \in Paths |-> StartDay]
    /\ accCutoff = StartDay - MonthLen
    /\ \/ /\ written = [p \in Paths |-> <<>>]
          /\ fsize = [p \in Paths |-> 0]
          /\ disk = NoFile
       \/ /\ written = [p \in Paths |-> <<4>>]
          /\ fsize = [p \in Paths |-> Len(Format(4))]
          /\ disk = Marshal(ScannedBadLine)

\* one invocation at a time over a log appended to with billable events
NextResume == Locked(1) \/ Writer(RewriteKinds)

SpecResume == InitResume /\ [][NextResume]_vars

\* the process dies between loadCostCache and the end of saveCostCache: its
\* memory is gone, the system drops its flock, and the cache file stays as the
\* steps so far left it
Crash(i) ==
    /\ pc[i] \in {"cleanup", "walk", "proc", "save", "write"}
    /\ held' = held \ {i}
    /\ pc' = [pc EXCEPT ![i] = "idle"]
    /\ cache' = [cache EXCEPT ![i] = EmptyCache]
    /\ cutoff' = [cutoff EXCEPT ![i] = 0]
    /\ todo' = [todo EXCEPT ![i] = 0]
    /\ attempts' = [attempts EXCEPT ![i] = 0]
    /\ info' = [info EXCEPT ![i] = [ModTime |-> 0, Size |-> 0]]
    /\ scan' = NoScan
    /\ pricing' = [pricing EXCEPT ![i] = <<>>]
    /\ readAny' = [readAny EXCEPT ![i] = FALSE]
    /\ UNCHANGED <<envVars, disk, runs, entryVars, pfile, fetch, payload, stats, call, winVars>>

\* one invocation at a time, any of which may die, over logs that may be
\* truncated and rewritten
NextCrash == NextRewrite \/ Crash(1)

SpecCrash == Init /\ [][NextCrash]_vars

\* the file's content is replaced by as many bytes, on a later day than its
\* last modification: its size stays, its modification time moves
RewriteInPlace(p, ks) ==
    /\ fsize[p] > 0
    /\ fsize[p] = Len(Bytes(written[p]))
    /\ Len(ks) = Len(written[p])
    /\ mtime[p] < now
    /\ \A i \in Procs : pc[i] = "idle"
    /\ written' = [written EXCEPT ![p] = ks]
    /\ mtime' = [mtime EXCEPT ![p] = now]
    /\ UNCHANGED <<now, fsize, disk, held, pc, cache, cutoff, todo, info,
                   attempts, scan, runs, entryVars, priceVars, outVars, call, winVars>>

\* the log as it may be when the clock reads StartDay: empty, or holding
\* entries written when the retention window of StartDay began, one of that
\* day or one of StartDay logged twice
InitClock ==
    /\ InitRun
    /\ FreshPricing
    /\ \E ks \in {<<>>, <<5>>, <<1, 1>>} :
         /\ written = [p \in Paths |-> ks]
         /\ fsize = [p \in Paths |-> Len(Bytes(ks))]
    /\ mtime = [p \in Paths |-> StartDay - MonthLen]
    /\ accCutoff = StartDay - MonthLen

\* one invocation at a time, over days, of logs appended to and rewritten in
\* place
NextClock ==
    \/ Locked(1)
    \/ Writer(ClockKinds)
    \/ Tick
    \/ \E p \in Paths : \E k1, k2 \in ClockKinds :
         \/ RewriteInPlace(p, <<k1>>)
         \/ RewriteInPlace(p, <<k1, k2>>)

SpecClock == InitClock /\ [][NextClock]_vars

\* two invocations launched concurrently over a log that holds one entry
InitLock ==
    /\ InitRun
    /\ FreshPricing
    /\ written = [p \in Paths |-> <<1>>]
    /\ fsize = [p \in Paths |-> 3]
    /\ mtime = [p \in Paths |-> StartDay]
    /\ accCutoff = StartDay - MonthLen

NextLock == \E i \in Procs : GetTokenStats(i)

SpecLock == InitLock /\ [][NextLock]_vars

\* two invocations launched concurrently, each scheduled until it returns
SpecLockFair == SpecLock /\ \A i \in Procs : WF_vars(GetTokenStats(i))

\* one invocation at a time over a log that holds one entry, with every
\* I/O failure the invocation can meet, scheduled until it returns
Failing(i) == GetTokenStats(i) \/ LoadUnreadable(i) \/ WalkFail(i)

NextFail == Failing(1)

SpecFail == InitLock /\ [][NextFail]_vars /\ WF_vars(Failing(1))

\* ------------------------------------------------- fetchAndCachePricing
\* what client.Get, the status check, io.ReadAll and json.Unmarshal make of
\* the request: a failure of one of them, or a body json.Unmarshal accepts,
\* which holds the table ("ok") or is a JSON object of another shape
\* ("shapeless")
Responses == {"neterr", "status", "readerr", "invalid", "shapeless", "ok"}

Accepted == {"shapeless", "ok"}

\* all that a step of the goroutine leaves alone, but for fetch, payload and
\* pfile
invocationVars == <<envVars, disk, held, pc, cache, cutoff, todo, info, attempts, scan,
                    runs, entryVars, pricing, outVars, call, winVars>>

\* the goroutine's request: all but a body that json.Unmarshal accepts end it
FetchGet(i) ==
    /\ fetch[i] = "get"
    /\ \E resp \in Responses :
         /\ fetch' = [fetch EXCEPT ![i] = IF resp \in Accepted THEN "save" ELSE "none"]
         /\ payload' = [payload EXCEPT ![i] = IF resp \in Accepted THEN resp ELSE "none"]
    /\ UNCHANGED <<invocationVars, pfile>>

\* os.WriteFile opens pricing.json with O_TRUNC, or fails to
FetchOpen(i) ==
    /\ fetch[i] = "save"
    /\ \/ /\ pfile' = EmptyPricingFile(now)
          /\ fetch' = [fetch EXCEPT ![i] = "write"]
          /\ UNCHANGED payload
       \/ /\ fetch' = [fetch EXCEPT ![i] = "none"]
          /\ payload' = [payload EXCEPT ![i] = "none"]
          /\ UNCHANGED pfile
    /\ UNCHANGED invocationVars

\* the file the body makes
Written(body, t) ==
    IF body = "ok" THEN PricingFile(t, FetchedPricing)
    ELSE IF body = "shapeless" THEN ShapelessPricingFile(t)
    ELSE EmptyPricingFile(t)

\* os.WriteFile writes the body, or fails to
FetchWrite(i) ==
    /\ fetch[i] = "write"
    /\ \/ pfile' = Written(payload[i], now)
       \/ UNCHANGED pfile
    /\ fetch' = [fetch EXCEPT ![i] = "none"]
    /\ payload' = [payload EXCEPT ![i] = "none"]
    /\ UNCHANGED invocationVars

\* the process exits after GetTokenStats has returned, and its goroutine
\* with it, wherever that stands
Exit(i) ==
    /\ pc[i] = "idle"
    /\ fetch[i] # "none"
    /\ fetch' = [fetch EXCEPT ![i] = "none"]
    /\ payload' = [payload EXCEPT ![i] = "none"]
    /\ UNCHANGED <<invocationVars, pfile>>

fetchAndCachePricing(i) == FetchGet(i) \/ FetchOpen(i) \/ FetchWrite(i)

\* one invocation at a time with its refresh goroutine, over a log that
\* holds one entry, from a pricing cache that is absent, fresh or a day old
InitPricing ==
    /\ InitRun
    /\ pfile \in {NoPricingFile,
                  PricingFile(StartDay, CachedPricing), PricingFile(StartDay - 1, CachedPricing),
                  EmptyPricingFile(StartDay), EmptyPricingFile(StartDay - 1)}
    /\ written = [p \in Paths |-> <<1>>]
    /\ fsize = [p \in Paths |-> 3]
    /\ mtime = [p \in Paths |-> StartDay]
    /\ accCutoff = StartDay - MonthLen

NextPricing == Locked(1) \/ fetchAndCachePricing(1) \/ Exit(1) \/ Tick

SpecPricing == InitPricing /\ [][NextPricing]_vars

\* aggregateStats alone, on day-bucket maps of up to two buckets, the
\* instants of one week and every aggregation mode, the unset one included
BucketDays == 0..15

Instants == 8..14

DayMaps ==
    {[d \in D |-> 2 ^ d] : D \in {E \in SUBSET BucketDays : Cardinality(E) <= 2}}

CallAggregate(dayCosts, t, mode) ==
    /\ call = NoCall
    /\ call' = [op |-> "aggregateStats", dayCosts |-> dayCosts, now |-> t, mode |-> mode,
                result |-> aggregateStats([EmptyCache EXCEPT !.DayCosts = dayCosts], t, mode)]
    /\ UNCHANGED runVars

NextAggregate ==
    \E dayCosts \in DayMaps, t \in Instants, mode \in Modes \cup {""} :
        CallAggregate(dayCosts, t, mode)

SpecAggregate == Init /\ [][NextAggregate]_vars

\* loadCostCache alone, on every content of the cache file
Snapshots ==
    [DayCosts : {<<>>, (3 :> 300)},
     FileState : {<<>>, ("a.jsonl" :> FileProcessState(3, 3, 3))},
     ProcessedMessages : {{}, {<<"m1", ":", "r1">>}}]

CacheFiles ==
    {NoFile, Truncated}
        \cup {Marshal(c) : c \in Snapshots}
        \cup {ObjectFile(kind, c) : kind \in [Fields -> {"map", "null", "mistyped"}],
                                     c \in Snapshots}

CallLoad(file) ==
    /\ call' = [op |-> "loadCostCache", file |-> file, result |-> loadCostCache(file)]
    /\ UNCHANGED runVars

NextLoad == \E file \in CacheFiles : CallLoad(file)

SpecLoad == Init /\ [][NextLoad]_vars

\* getPricing and calculateCost alone, on model ids and tables of every shape
XFull == <<"x", "sonnet", "4", "5", "20250514">>
XVersioned == <<"x", "sonnet", "4", "5">>
XBase == <<"x", "sonnet">>

\* "" splits into one empty segment
EmptyId == <<"">>

ModelIds ==
    {XFull, XVersioned, XBase, EmptyId, Sonnet45, <<"x">>,
     <<"claude", "sonnet", "4", "5", "20250514">>,
     <<"x", "20250514", "sonnet">>, <<"", "20250514">>, <<"20250514">>}

KeyPrices ==
    (XFull :> [Input |-> 1, Output |-> 5]) @@ (XVersioned :> [Input |-> 2, Output |-> 10])
        @@ (XBase :> [Input |-> 4, Output |-> 20]) @@ (<<"x">> :> [Input |-> 5, Output |-> 25])
        @@ (EmptyId :> [Input |-> 7, Output |-> 35])

\* every table over these keys, the empty (or nil) Models map included
PriceTables == {MapRestrict(KeyPrices, K) : K \in SUBSET DOMAIN KeyPrices}

SmallUsage == [input : 0..1, output : 0..1, cacheCreation : 0..1, cacheRead : 0..1]

MillionUsage ==
    {[NoUsage EXCEPT !.cacheCreation = 1000000], [NoUsage EXCEPT !.cacheRead = 1000000],
     [NoUsage EXCEPT !.input = 1000000, !.output = 1000000]}

CallPricing(model, table) ==
    /\ call' = [op |-> "getPricing", model |-> model, pricing |-> table,
                result |-> getPricing(model, table)]
    /\ UNCHANGED runVars

CallCost(model, u, table) ==
    /\ call' = [op |-> "calculateCost", model |-> model, usage |-> u, pricing |-> table,
                result |-> calculateCost(model, u.input, u.output, u.cacheCreation,
                                         u.cacheRead, table)]
    /\ UNCHANGED runVars

NextPrice ==
    \/ \E model \in ModelIds, table \in PriceTables : CallPricing(model, table)
    \/ \E model \in {XFull, Sonnet45, EmptyId}, u \in SmallUsage,
          table \in {PricingTable, MapRestrict(KeyPrices, {XBase}), <<>>} :
            CallCost(model, u, table)
    \/ \E u \in MillionUsage : CallCost(Sonnet45, u, PricingTable)

SpecPrice == Init /\ [][NextPrice]_vars

\* model ids of up to MaxSegs segments, as strings.Split(model, "-") returns
\* them
MaxSegs == 3
Segs == {"x", "sonnet", "", "4", "4o", "20250514"}

SegIds == UNION {[1..n -> Segs] : n \in 1..MaxSegs}

CallStrip(model) ==
    /\ call = NoCall
    /\ call' = [op |-> "stripVersion", model |-> model, result |-> stripVersion(model)]
    /\ UNCHANGED runVars

NextStrip == \E model \in SegIds : CallStrip(model)

SpecStrip == Init /\ [][NextStrip]_vars

\* ------------------------------------------- the lock of the Windows build
Removable_WhileOpen == lockfile.exists

\* os.Remove(lockFile) succeeds: DeleteFile refuses a file of which a handle
\* is open that does not share deletion, and os.OpenFile opens with
\* FILE_SHARE_READ | FILE_SHARE_WRITE only
Removable == lockfile.exists /\ handles = {}

\* GetTokenStats calls acquireLock
WinStart(i) ==
    /\ wpc[i] = "idle"
    /\ wpc' = [wpc EXCEPT ![i] = "open"]
    /\ tries' = [tries EXCEPT ![i] = 0]
    /\ UNCHANGED <<unixVars, lockfile, handles>>

\* the loop's test, then os.OpenFile with O_CREATE|O_EXCL: it creates the
\* file, or fails because the file is there
WinOpen(i) ==
    /\ wpc[i] = "open"
    /\ IF tries[i] >= LockAttempts
       THEN /\ wpc' = [wpc EXCEPT ![i] = "nolock"]
            /\ UNCHANGED <<lockfile, handles>>
       ELSE IF lockfile.exists
       THEN /\ wpc' = [wpc EXCEPT ![i] = "stat"]
            /\ UNCHANGED <<lockfile, handles>>
       ELSE /\ lockfile' = FreshLockFile
            /\ handles' = handles \cup {i}
            /\ wpc' = [wpc EXCEPT ![i] = "held"]
    /\ UNCHANGED <<unixVars, tries>>

\* os.Stat and the test of the age; time.Sleep and the next pass otherwise
WinStat(i) ==
    /\ wpc[i] = "stat"
    /\ IF lockfile.exists /\ lockfile.stale
       THEN /\ wpc' = [wpc EXCEPT ![i] = "remove"]
            /\ UNCHANGED tries
       ELSE /\ wpc' = [wpc EXCEPT ![i] = "open"]
            /\ tries' = [tries EXCEPT ![i] = @ + 1]
    /\ UNCHANGED <<unixVars, lockfile, handles>>

\* os.Remove(lockFile) of the file found stale, and continue
WinRemoveStale(i) ==
    /\ wpc[i] = "remove"
    /\ lockfile' = IF Removable THEN NoLockFile ELSE lockfile
    /\ wpc' = [wpc EXCEPT ![i] = "open"]
    /\ tries' = [tries EXCEPT ![i] = @ + 1]
    /\ UNCHANGED <<unixVars, handles>>

\* releaseLock: f.Close()
WinClose(i) ==
    /\ wpc[i] = "held"
    /\ handles' = handles \ {i}
    /\ wpc' = [wpc EXCEPT ![i] = "unlink"]
    /\ UNCHANGED <<unixVars, lockfile, tries>>

\* releaseLock: os.Remove(name), and the return
WinUnlink(i) ==
    /\ wpc[i] = "unlink"
    /\ lockfile' = IF Removable THEN NoLockFile ELSE lockfile
    /\ wpc' = [wpc EXCEPT ![i] = "idle"]
    /\ UNCHANGED <<unixVars, handles, tries>>

\* the return of an invocation that acquireLock gave no lock
WinReturnUnlocked(i) ==
    /\ wpc[i] = "nolock"
    /\ wpc' = [wpc EXCEPT ![i] = "idle"]
    /\ UNCHANGED <<unixVars, lockfile, handles, tries>>

\* the process dies holding the lock: its handle is closed, the file stays
WinCrash(i) ==
    /\ wpc[i] = "held"
    /\ handles' = handles \ {i}
    /\ wpc' = [wpc EXCEPT ![i] = "dead"]
    /\ UNCHANGED <<unixVars, lockfile, tries>>

\* 30 seconds pass since the lock file was created
WinAge ==
    /\ lockfile.exists
    /\ ~lockfile.stale
    /\ lockfile' = [lockfile EXCEPT !.stale = TRUE]
    /\ UNCHANGED <<unixVars, handles, wpc, tries>>

acquireLockWin(i) == WinStart(i) \/ WinOpen(i) \/ WinStat(i) \/ WinRemoveStale(i)

releaseLockWin(i) == WinClose(i) \/ WinUnlink(i)

NextWin ==
    \/ \E i \in WinProcs :
          acquireLockWin(i) \/ releaseLockWin(i) \/ WinReturnUnlocked(i) \/ WinCrash(i)
    \/ WinAge

SpecWin == Init /\ [][NextWin]_vars

\* processLogEntry alone: lines folded one after the other into one snapshot
LineInputs == {Format(k) : k \in Kinds} \cup {<< <<1, 1>> >>}

InitEntry ==
    /\ InitRun
    /\ FreshPricing
    /\ written = [p \in Paths |-> <<>>]
    /\ fsize = [p \in Paths |-> 0]
    /\ mtime = [p \in Paths |-> StartDay]
    /\ accCutoff \in {d - MonthLen : d \in StartDay..(StartDay + MaxTicks)}

Fold(line) ==
    /\ Len(hist) < MaxFolds
    /\ accPrev' = acc
    /\ acc' = processLogEntry(line, acc, PricingTable, accCutoff)
    /\ hist' = Append(hist, line)
    /\ UNCHANGED <<envVars, disk, held, pc, cache, cutoff, todo, info, attempts,
                   scan, runs, accCutoff, priceVars, outVars, call, winVars>>

NextEntry == \E line \in LineInputs : Fold(line)

SpecEntry == InitEntry /\ [][NextEntry]_vars

\* ================================================================ claims
\* ---------------------------------------------------------------- SpecEntry
\* the snapshot left by folding each distinct line of h[1..n] once, at its
\* first place in h
RECURSIVE FoldOnce(_, _)
FoldOnce(h, n) ==
    IF n = 0 THEN EmptyCache
    ELSE IF \E j \in 1..(n - 1) : h[j] = h[n] THEN FoldOnce(h, n - 1)
    ELSE processLogEntry(h[n], FoldOnce(h, n - 1), PricingTable, accCutoff)

\* C1: folding the same event N >= 1 times through processLogEntry, with
\* other lines in between or after a save and reload of the snapshot, leaves
\* the DayCosts and the DedupSet that folding it once leaves.
C1_IdempotentDedup ==
    /\ acc.DayCosts = FoldOnce(hist, Len(hist)).DayCosts
    /\ acc.ProcessedMessages = FoldOnce(hist, Len(hist)).ProcessedMessages
    /\ \A line \in LineInputs :
         LET once == processLogEntry(line, acc, PricingTable, accCutoff)
         IN  processLogEntry(line, loadCostCache(Marshal(once)), PricingTable, accCutoff)
               = once

\* a billable entry folded at least twice, and counted
C1_Witness ==
    /\ \E i, j \in 1..Len(hist) : i < j /\ hist[i] = Format(1) /\ hist[j] = Format(1)
    /\ 3 \in DOMAIN acc.DayCosts
    /\ acc.DayCosts[3] = 300
    /\ <<"m1", ":", "r1">> \in acc.ProcessedMessages

\* the decoder's rejections, as the specification lists them
Rejected(line, monthlyCutoff) ==
    \/ ~JsonValid(line)
    \/ LET e == Decode(line)
       IN  \/ e.timestamp = BadTime
           \/ e.timestamp < monthlyCutoff
           \/ e.type # "assistant"
           \/ e.usage = NoUsage
           \/ DedupKey(e) = <<":">>

\* C9: a line the decoder rejects (invalid JSON, bad or old timestamp, not an
\* assistant entry, all token counts zero, dedup key ":") changes neither
\* DayCosts nor the DedupSet.
C9_RejectedLineIsPureSkip ==
    (hist # <<>> /\ Rejected(hist[Len(hist)], accCutoff))
        => /\ acc.DayCosts = accPrev.DayCosts
           /\ acc.ProcessedMessages = accPrev.ProcessedMessages

\* --------------------------------------------------------------------- Spec
\* the snapshot after processLogFile has scanned path p when its first
\* size bytes were in the file, starting from snapshot c
ScanAt(p, size, c) ==
    processLogFile(p, [ModTime |-> mtime[p], Size |-> size], c, PricingTable,
                   now - MonthLen, SubSeq(FileBytes(p), 1, size), TRUE, 0)

\* C2: for every append-only file and sizes S < S', on or off a line
\* boundary: a scan at size S followed by a scan at size S' with the recorded
\* state reads only from the recorded offset on, and leaves the DayCosts and
\* DedupSet of one scan of the S' bytes from offset 0 into an empty snapshot.
C2_ResumeEqualsFullScan ==
    \A p \in Paths : \A S \in 0..(fsize[p] - 1) :
        LET first == ScanAt(p, S, EmptyCache)
            second == ScanAt(p, fsize[p], first.cache)
            full == ScanAt(p, fsize[p], EmptyCache)
        IN  /\ second.start = first.cache.FileState[p].Offset
            /\ second.cache.DayCosts = full.cache.DayCosts
            /\ second.cache.ProcessedMessages = full.cache.ProcessedMessages

\* the decoded entries of the complete lines now in the log files
FileEntries ==
    UNION { { Decode(lines[n]) : n \in {m \in 1..Len(lines) : JsonValid(lines[m])} }
            : lines \in { SplitLines(FileBytes(p)) : p \in Paths } }

EntryCost(e) ==
    calculateCost(e.model, e.usage.input, e.usage.output, e.usage.cacheCreation,
                  e.usage.cacheRead, PricingTable)

Max(S) == IF S = {} THEN 0 ELSE CHOOSE x \in S : \A y \in S : y <= x

\* the sum of a map's values
RECURSIVE SumFn(_)
SumFn(f) ==
    IF DOMAIN f = {} THEN 0
    ELSE LET x == CHOOSE y \in DOMAIN f : TRUE
         IN  f[x] + SumFn([k \in DOMAIN f \ {x} |-> f[k]])

\* the summed cost of the distinct dedup keys dated day that the files hold,
\* each key at the dearest of its entries
DistinctCost(day) ==
    LET dated == {e \in FileEntries : e.timestamp = day /\ e.type = "assistant"}
        keys == {DedupKey(e) : e \in dated}
    IN  SumFn([k \in keys |-> Max({EntryCost(e) : e \in {x \in dated : DedupKey(x) = k}})])

NoOvercount(dayCosts) == \A d \in DOMAIN dayCosts : dayCosts[d] <= DistinctCost(d)

\* C3: over append-only logs, whatever the invocations did, eviction of the
\* dedup set included, no day bucket holds more than the summed cost of the
\* distinct dedup keys of that day in the log files.
C3_NeverCountsTwice ==
    /\ \A i \in Procs : NoOvercount(cache[i].DayCosts)
    /\ disk.tag = "json" => NoOvercount(disk.day_costs)

OffsetsWithinSize(fileState) ==
    \A p \in DOMAIN fileState : fileState[p].Offset <= fileState[p].Size

\* C4: every FileScanState of every snapshot, in memory and persisted, has
\* Offset <= Size, also when the file grows between the walk's stat and the
\* read.
C4_OffsetWithinSize ==
    /\ \A i \in Procs : OffsetsWithinSize(cache[i].FileState)
    /\ disk.tag = "json" => OffsetsWithinSize(disk.file_state)

\* process i's call of cleanupOldDays
CleanupStep(i) == pc[i] = "cleanup" /\ pc'[i] = "walk"

\* C5: cleanupOldDays leaves the DedupSet and FileState both untouched when
\* the dedup set does not exceed its cap, and empties both when it does.
C5_EvictionClearsBoth ==
    [][\A i \in Procs : CleanupStep(i) =>
          IF Cardinality(cache[i].ProcessedMessages) > DedupCap
          THEN /\ cache'[i].ProcessedMessages = {}
               /\ cache'[i].FileState = <<>>
          ELSE /\ cache'[i].ProcessedMessages = cache[i].ProcessedMessages
               /\ cache'[i].FileState = cache[i].FileState]_vars

\* an eviction has just emptied both maps of a loaded snapshot that held
\* scan states and more keys than the cap
C5_Witness ==
    \E i \in Procs :
        /\ pc[i] = "walk"
        /\ disk.tag = "json"
        /\ Cardinality(disk.processed_messages) > DedupCap
        /\ DOMAIN disk.file_state # {}
        /\ cache[i].ProcessedMessages = {}
        /\ cache[i].FileState = <<>>

\* process i's call of processLogFile returns
ProcessStep(i) == pc[i] = "proc" /\ pc'[i] # "proc"

\* the file of process i's pending call of processLogFile
CurPath(i) == WalkOrder[todo[i]]

HasState(i) == CurPath(i) \in DOMAIN cache[i].FileState

\* C7: with a recorded state whose ModTime and Size equal the file's,
\* processLogFile returns without opening the file and leaves DayCosts,
\* DedupSet and FileState as they were.
C7_UnchangedFileSkipped ==
    [][\A i \in Procs :
          ( /\ ProcessStep(i)
            /\ HasState(i)
            /\ cache[i].FileState[CurPath(i)].ModTime = info[i].ModTime
            /\ cache[i].FileState[CurPath(i)].Size = info[i].Size )
          => /\ scan'.opens = 0
             /\ scan'.nlines = 0
             /\ cache'[i] = cache[i]]_vars

\* a file with billable content, scanned by an earlier invocation, was
\* skipped by this one
C7_Witness ==
    /\ scan.status = "skipped"
    /\ scan.opens = 0
    /\ pc[1] = "save"
    /\ cache[1].FileState["a.jsonl"].Size > 0
    /\ DOMAIN cache[1].DayCosts # {}

\* C8: when a read error other than EOF interrupts processLogFile, the
\* file's FileState entry stays as it was before the call, absent if it was
\* absent.
C8_ReadErrorKeepsFileState ==
    [][\A i \in Procs :
          (ProcessStep(i) /\ scan'.status = "readerr")
          => cache'[i].FileState = cache[i].FileState]_vars

\* a resumed scan folded a line and then hit a read error
C8_Witness ==
    /\ scan.status = "readerr"
    /\ scan.nlines > 0
    /\ scan.start > 0
    /\ pc[1] = "save"
    /\ cache[1].FileState["a.jsonl"].Offset = scan.start
    /\ fsize["a.jsonl"] > scan.start

\* -------------------------------------------------------------- SpecRewrite
\* C6: when the file's size is smaller than the recorded Size, processLogFile
\* reads from byte 0, hands every line of the file to processLogEntry and,
\* on success, records Offset = the bytes consumed from 0.
C6_ShrunkFileRescanned ==
    [][\A i \in Procs :
          ( /\ ProcessStep(i)
            /\ HasState(i)
            /\ cache[i].FileState[CurPath(i)].Size > info[i].Size
            /\ scan'.opens = 1
            /\ scan'.status # "openfail" )
          => /\ scan'.start = 0
             /\ scan'.status = "done" =>
                  LET lines == SplitLines(FileBytes(CurPath(i)))
                      folded == FoldLines(lines, Len(lines), cache[i], PricingTable,
                                          cutoff[i])
                  IN  /\ scan'.nlines = Len(lines)
                      /\ cache'[i].DayCosts = folded.DayCosts
                      /\ cache'[i].ProcessedMessages = folded.ProcessedMessages
                      /\ cache'[i].FileState[CurPath(i)]
                           = FileProcessState(info[i].ModTime, info[i].Size,
                                              Len(FileBytes(CurPath(i))))]_vars

\* a file recorded at a larger size was rewritten shorter, with an entry not
\* seen before, and has been rescanned from 0
C6_Witness ==
    /\ pc[1] = "save"
    /\ scan.status = "done"
    /\ scan.start = 0
    /\ scan.nlines > 0
    /\ disk.tag = "json"
    /\ "a.jsonl" \in DOMAIN disk.file_state
    /\ disk.file_state["a.jsonl"].Size > fsize["a.jsonl"]
    /\ disk.file_state["a.jsonl"].Offset > fsize["a.jsonl"]
    /\ cache[1].FileState["a.jsonl"].Offset = fsize["a.jsonl"]
    /\ cache[1].ProcessedMessages # disk.processed_messages

\* ----------------------------------------------------------------- SpecLock
\* process i has loaded the snapshot and not yet finished saving it
InCycle(i) == pc[i] \in {"cleanup", "walk", "proc", "save", "write"}

\* C10 as claimed: the load-mutate-save cycles of two concurrently launched
\* invocations never overlap.
C10_CyclesNeverOverlap ==
    \A i, j \in Procs : (i # j /\ InCycle(i)) => ~InCycle(j)

\* C10 as amended: the load-mutate-save cycles of two invocations that both
\* acquired the lock never overlap.
C10_LockedCyclesNeverOverlap ==
    \A i, j \in Procs :
        (i # j /\ InCycle(i) /\ InCycle(j)) => ~(i \in held /\ j \in held)

\* one invocation is in its cycle under the lock while another, refused the
\* lock LockAttempts times, is in its cycle without it
C10_Witness ==
    \E i, j \in Procs :
        /\ i # j
        /\ InCycle(i)
        /\ InCycle(j)
        /\ i \in held
        /\ j \notin held
        /\ attempts[j] = LockAttempts

\* ---- C11 ----------------------------------------------------------------
LoadStep(i) == pc[i] = "load" /\ pc'[i] = "cleanup"

\* C11: the cache file is replaced atomically: whenever an invocation loads
\* the cache, under any interleaving with other invocations' saves, the file
\* is absent or holds the complete snapshot some saveCostCache wrote, never
\* a partially written one.
C11_LoadSeesCompleteFile ==
    [][\A i \in Procs : LoadStep(i) => disk.tag \in {"nofile", "json"}]_vars

\* an invocation is about to load while another, between the truncation and
\* the write of its os.WriteFile, has emptied the file
C11_TornRead ==
    \E i, j \in Procs : i # j /\ pc[i] = "load" /\ i \in held /\ pc[j] = "write" /\ disk = Truncated

\* ---- C12 ----------------------------------------------------------------
\* C12: acquireLock makes at most 10 attempts and then returns; after a
\* failed acquireLock the invocation goes on without the lock through load,
\* scan, save and aggregate, so that no invocation waits for the lock
\* forever.
C12_BoundedLockThenProceeds ==
    /\ [](\A i \in Procs : attempts[i] <= LockAttempts)
    /\ [](\A i \in Procs : ~(pc[i] = "lock" /\ attempts[i] = LockAttempts))
    /\ \A i \in Procs : (pc[i] = "lock") ~> (pc[i] = "load")
    /\ \A i \in Procs : (pc[i] = "load" /\ i \notin held) ~>
                             (pc[i] = "unlock" /\ i \notin held /\ stats[i] # NoStats)

\* an invocation refused the flock 10 times has aggregated, without the lock
C12_Witness ==
    \E i \in Procs : pc[i] = "unlock" /\ attempts[i] = LockAttempts /\ i \notin held
                      /\ stats[i] # NoStats

\* ---- C13 ----------------------------------------------------------------
IsTokenStats(v) ==
    /\ DOMAIN v = {"DailyCost", "WeeklyCost", "MonthlyCost"}
    /\ v.DailyCost \in Nat /\ v.WeeklyCost \in Nat /\ v.MonthlyCost \in Nat

\* C13: every invocation of GetTokenStats terminates and returns a
\* TokenStats value whatever I/O fails (lock, cache file, projects directory,
\* log file); when neither the cache file nor any log line could be read the
\* value is {0,0,0}.
C13_AlwaysReturnsStats ==
    /\ \A i \in Procs : (pc[i] = "lock") ~> (pc[i] = "unlock")
    /\ \A i \in Procs : (pc[i] = "unlock") ~> (pc[i] = "idle")
    /\ [](\A i \in Procs : pc[i] = "unlock" =>
            /\ IsTokenStats(stats[i])
            /\ (~readAny[i] => stats[i] = TokenStats(0, 0, 0)))

\* an invocation returns after the lock file could not be opened, the cache
\* file could not be read and the log file could not be opened
C13_Witness ==
    /\ pc[1] = "unlock" /\ 1 \notin held /\ ~readAny[1]
    /\ disk # NoFile /\ runs = 2
    /\ scan.status = "openfail"
    /\ stats[1] = TokenStats(0, 0, 0)

\* ---- C14 ----------------------------------------------------------------
Loaded == call.op = "loadCostCache"

IsSnapshot(c) ==
    /\ DOMAIN c = {"DayCosts", "FileState", "ProcessedMessages"}
    /\ c.DayCosts \in {s.DayCosts : s \in Snapshots}
    /\ c.FileState \in {s.FileState : s \in Snapshots}
    /\ c.ProcessedMessages \in {s.ProcessedMessages : s \in Snapshots}

\* C14: loadCostCache returns a snapshot whose three maps are made, and all
\* three are empty when the cache file does not exist or its content fails
\* to parse.
C14_LoadEmptyOnParseFailure ==
    Loaded =>
        /\ IsSnapshot(call.result)
        /\ (call.file.tag = "nofile" \/ ParseFails(call.file)) => call.result = EmptyCache

\* ---- C15, C16 -----------------------------------------------------------
Costed == call.op = "calculateCost"

Resolved == getPricing(call.model, call.pricing)

\* C15: the cost of an event is inputTokens/1e6*input + outputTokens/1e6*input
\* + cacheCreation/1e6*input*1.25 + cacheRead/1e6*input*0.10
\* + outputTokens/1e6*output: output tokens pay the input rate as well as the
\* output rate.
C15_OutputAlsoAtInputRate ==
    Costed =>
        call.result = call.usage.input * Resolved.Input * 100
                      + call.usage.output * Resolved.Input * 100
                      + call.usage.cacheCreation * Resolved.Input * 125
                      + call.usage.cacheRead * Resolved.Input * 10
                      + call.usage.output * Resolved.Output * 100

Priced == call.op = "getPricing"

\* the id without its date suffix: all that comes before the last "-20"
DateStripped(model) ==
    IF LastDateIdx(model) > 0 THEN SubSeq(model, 1, LastDateIdx(model) - 1) ELSE model

\* the four keys in the order of the lookups
Candidates(model) ==
    << model, DateStripped(model), stripVersion(DateStripped(model)), stripVersion(model) >>

Hits(model, table) == {n \in 1..4 : Candidates(model)[n] \in DOMAIN table}

FirstHit(model, table) == CHOOSE n \in Hits(model, table) : \A m \in Hits(model, table) : n <= m

IsPricePair(v) == DOMAIN v = {"Input", "Output"} /\ v.Input \in Nat /\ v.Output \in Nat

StalePricing == pfile.tag = "json" /\ now - pfile.modTime >= PricingTTL

\* C19: when pricing.json exists but is older than 24 hours, loadPricing
\* starts a background refresh and the run prices its events with the stale
\* table of the file.
C19_StaleTableServesRun ==
    [][\A i \in Procs :
         (LoadStep(i) /\ StalePricing) =>
             /\ fetch'[i] = "get"
             /\ pricing'[i] = pfile.models]_vars

FetchStep(i) == fetch[i] # "none" /\ fetch'[i] # fetch[i]

InRun(i) == pc[i] \notin {"idle", "lock", "load"}

\* C20: the background refresh never delays or alters the invocation that
\* started it: loadPricing returns a table that is in pricing.json or in the
\* binary at that moment, the invocation keeps it until it returns, no step
\* of the refresh changes anything of the invocation, and so a table the
\* refresh writes is used by a later invocation only.
C20_RefreshNeverAltersRun ==
    [][\A i \in Procs :
         /\ LoadStep(i) =>
               /\ pricing'[i] \in {embeddedPricing}
                                    \cup (IF pfile.tag = "json" THEN {pfile.models} ELSE {})
                                    \cup (IF pfile.tag = "object" THEN {<<>>} ELSE {})
               /\ fetch'[i] = "get" => pricing'[i] # FetchedPricing
         /\ (InRun(i) /\ pc'[i] # "idle") => pricing'[i] = pricing[i]
         /\ FetchStep(i) => UNCHANGED <<pc, cache, pricing, stats, disk>>]_vars

\* an invocation has aggregated with the table of the binary while the
\* refresh it started has not yet got its answer
C20_Witness ==
    /\ pc[1] = "unlock"
    /\ fetch[1] = "get"
    /\ pricing[1] = embeddedPricing
    /\ stats[1] # NoStats

\* a later invocation runs with the table a refresh has written
C20_LaterRunUsesRefresh ==
    runs = 2 /\ InRun(1) /\ pricing[1] = FetchedPricing

\* ---- C22, C23, C24 ------------------------------------------------------
Aggregated == call.op = "aggregateStats"

\* the sum of the buckets dated from lo to hi, both included
SumBetween(dayCosts, lo, hi) ==
    SumDays(dayCosts, {d \in DOMAIN dayCosts : lo <= d /\ d <= hi})

\* the most recent Monday and the first day of the calendar month of t
LastMonday(t) == CHOOSE m \in (t - 6)..t : m % 7 = 1

FirstOfMonth(t) == CHOOSE m \in (t - MonthLen + 1)..t : m % MonthLen = 0

\* C22: in fixed mode daily is the bucket of today only, weekly the sum of
\* the buckets from the most recent Monday up to and including today, and
\* monthly the sum from the first day of the calendar month up to and
\* including today; a bucket dated after today is in none of the three.
C22_FixedWindowsEndToday ==
    (Aggregated /\ call.mode = "fixed") =>
        call.result = TokenStats(SumBetween(call.dayCosts, call.now, call.now),
                                 SumBetween(call.dayCosts, LastMonday(call.now), call.now),
                                 SumBetween(call.dayCosts, FirstOfMonth(call.now), call.now))

\* C23: in sliding mode daily is the sum of the buckets dated now - 24h or
\* later, weekly the sum of those dated now - 7d or later, and monthly the
\* sum of all buckets of the snapshot.
C23_SlidingWindows ==
    (Aggregated /\ call.mode = "sliding") =>
        call.result = TokenStats(
            SumDays(call.dayCosts, {d \in DOMAIN call.dayCosts : d >= call.now - 1}),
            SumDays(call.dayCosts, {d \in DOMAIN call.dayCosts : d >= call.now - 7}),
            SumDays(call.dayCosts, DOMAIN call.dayCosts))

\* a sliding aggregation over a bucket dated exactly 7 days back and one
\* dated 8 days back: weekly holds the first only
C23_Witness ==
    /\ Aggregated /\ call.mode = "sliding"
    /\ DOMAIN call.dayCosts = {call.now - 7, call.now - 8}
    /\ call.result.DailyCost = 0
    /\ call.result.WeeklyCost = call.dayCosts[call.now - 7]
    /\ call.result.MonthlyCost = call.dayCosts[call.now - 7] + call.dayCosts[call.now - 8]

\* C24: with the aggregation mode unset, daily is today's bucket only,
\* weekly the sum of the buckets of the last 7 days, and monthly the sum of
\* every bucket of the snapshot, one dated more than a month back included.
C24_DefaultWindows ==
    (Aggregated /\ call.mode = "") =>
        call.result = TokenStats(SumBetween(call.dayCosts, call.now, call.now),
                                 SumBetween(call.dayCosts, call.now - 7, call.now),
                                 SumDays(call.dayCosts, DOMAIN call.dayCosts))

\* ---- C21 ----------------------------------------------------------------
\* C21: fetchAndCachePricing writes pricing.json only when the fetched body
\* parses as {updated, models: {modelId: {input, output}}}; after a network
\* error, a status other than 200 or an invalid body the file is as it was.
C21_WritesOnlyValidTable ==
    [][pfile' # pfile => \E i \in Procs : fetch[i] \in {"save", "write"} /\ payload[i] = "ok"]_vars

\* ---------------------------------------------------------------- SpecClock
\* process i has pruned the snapshot and not yet returned
Pruned(i) == pc[i] \in {"walk", "proc", "save", "write", "aggregate", "unlock"}

\* C25: from cleanupOldDays to the end of every run with retention cutoff c,
\* DayCosts has no key before the day of c: cleanupOldDays drops every
\* older bucket and keeps every other one with its value, and the scan adds
\* no bucket older than the cutoff.
C25_NoBucketBeforeCutoff ==
    /\ [](\A i \in Procs : Pruned(i) =>
             \A d \in DOMAIN cache[i].DayCosts : d >= cutoff[i])
    /\ [][\A i \in Procs :
             /\ CleanupStep(i) =>
                  cache'[i].DayCosts
                    = MapRestrict(cache[i].DayCosts,
                                  {d \in DOMAIN cache[i].DayCosts : d >= cutoff[i]})
             /\ ProcessStep(i) =>
                  \A d \in DOMAIN cache'[i].DayCosts \ DOMAIN cache[i].DayCosts :
                      d >= cutoff[i]]_vars

\* a day later, the run has dropped the bucket that left the window and kept
\* the other one as it was saved
C25_Witness ==
    /\ pc[1] = "save"
    /\ now = StartDay + 1
    /\ disk.tag = "json"
    /\ DOMAIN disk.day_costs = {StartDay - MonthLen, StartDay}
    /\ DOMAIN cache[1].DayCosts = {StartDay}
    /\ cache[1].DayCosts[StartDay] = disk.day_costs[StartDay]

\* C26: after a run of GetTokenStats the snapshot holds no FileState entry
\* for a file last modified before the run's retention cutoff.
C26_FileStatePruned ==
    \A i \in Procs : pc[i] \in {"save", "write", "aggregate", "unlock"} =>
        \A p \in DOMAIN cache[i].FileState : mtime[p] >= cutoff[i]

\* process i's call of processLogFile opened the file
Opened(i) == ProcessStep(i) /\ scan'.opens = 1 /\ scan'.status # "openfail"

\* C28: whenever the file is larger than the Size recorded for it,
\* processLogFile reads from the recorded Offset on, whether the modTime
\* has changed or not, and reads no byte before that offset.
C28_GrownFileResumes ==
    [][\A i \in Procs :
          ( /\ Opened(i)
            /\ HasState(i)
            /\ cache[i].FileState[CurPath(i)].Size < info[i].Size )
          => LET offset == cache[i].FileState[CurPath(i)].Offset
                 rest == SubSeq(FileBytes(CurPath(i)), offset + 1,
                                Len(FileBytes(CurPath(i))))
             IN  /\ scan'.start = offset
                 /\ scan'.nlines <= Len(SplitLines(rest))
                 /\ scan'.status = "done" => scan'.nlines = Len(SplitLines(rest))]_vars

\* a file that grew on the day of its recorded modTime has been read from
\* the recorded offset on
C28_Witness ==
    /\ pc[1] = "save"
    /\ scan.status = "done"
    /\ scan.start > 0
    /\ scan.nlines = 1
    /\ disk.tag = "json"
    /\ "a.jsonl" \in DOMAIN disk.file_state
    /\ disk.file_state["a.jsonl"].ModTime = mtime["a.jsonl"]
    /\ disk.file_state["a.jsonl"].Size < fsize["a.jsonl"]
    /\ disk.file_state["a.jsonl"].Offset = scan.start

\* the summed cost of the dedup keys dated day that the files hold and
\* snapshot c has not seen
UnseenCost(c, monthlyCutoff, day) ==
    LET dated == {e \in FileEntries :
                    /\ e.timestamp = day
                    /\ e.timestamp >= monthlyCutoff
                    /\ e.type = "assistant"
                    /\ DedupKey(e) \notin c.ProcessedMessages}
        keys == {DedupKey(e) : e \in dated}
    IN  SumFn([k \in keys |-> Max({EntryCost(e) : e \in {x \in dated : DedupKey(x) = k}})])

BucketOf(dayCosts, d) == IF d \in DOMAIN dayCosts THEN dayCosts[d] ELSE 0

\* C29: when the file's size equals the recorded Size and its modTime
\* differs from the recorded ModTime, processLogFile reads the file from
\* byte 0, and the events whose keys the DedupSet holds are not counted again.
C29_RewrittenFileRescanned ==
    [][\A i \in Procs :
          ( /\ Opened(i)
            /\ HasState(i)
            /\ cache[i].FileState[CurPath(i)].Size = info[i].Size
            /\ cache[i].FileState[CurPath(i)].ModTime # info[i].ModTime )
          => /\ scan'.start = 0
             /\ scan'.status = "done" =>
                  /\ scan'.nlines = Len(SplitLines(FileBytes(CurPath(i))))
                  /\ \A d \in 0..(StartDay + MaxTicks) :
                        BucketOf(cache'[i].DayCosts, d)
                          = BucketOf(cache[i].DayCosts, d)
                              + UnseenCost(cache[i], cutoff[i], d)]_vars

\* a file rewritten in place a day later, holding an event already counted
\* and one not seen before, has been rescanned from 0 and only the new event
\* was added
C29_Witness ==
    /\ pc[1] = "save"
    /\ scan.status = "done"
    /\ scan.start = 0
    /\ scan.nlines = 2
    /\ disk.tag = "json"
    /\ "a.jsonl" \in DOMAIN disk.file_state
    /\ disk.file_state["a.jsonl"].Size = fsize["a.jsonl"]
    /\ disk.file_state["a.jsonl"].ModTime < mtime["a.jsonl"]
    /\ disk.processed_messages # {}
    /\ disk.processed_messages # cache[1].ProcessedMessages
    /\ disk.processed_messages \subseteq cache[1].ProcessedMessages
    /\ \E d \in DOMAIN disk.day_costs \cap DOMAIN cache[1].DayCosts :
         cache[1].DayCosts[d] = disk.day_costs[d]

\* --------------------------------------------------------------------- Spec
\* the lines of a scan that decode
Decodable(lines) == SelectSeq(lines, LAMBDA line : JsonValid(line))

\* C27: a line that fails to decode never aborts a scan: a call of
\* processLogFile that meets no read error hands every line from its start
\* offset on to processLogEntry, leaves DayCosts and the DedupSet as the
\* lines that decode alone would, and records a FileState whose Offset is
\* the end of the file.
C27_BadLineNeverAborts ==
    [][\A i \in Procs :
          (Opened(i) /\ scan'.status = "done")
          => LET content == FileBytes(CurPath(i))
                 lines == SplitLines(SubSeq(content, scan'.start + 1, Len(content)))
                 good == Decodable(lines)
                 folded == FoldLines(good, Len(good), cache[i], PricingTable, cutoff[i])
             IN  /\ scan'.nlines = Len(lines)
                 /\ cache'[i].DayCosts = folded.DayCosts
                 /\ cache'[i].ProcessedMessages = folded.ProcessedMessages
                 /\ CurPath(i) \in DOMAIN cache'[i].FileState
                 /\ cache'[i].FileState[CurPath(i)].Size = info[i].Size
                 /\ cache'[i].FileState[CurPath(i)].Offset >= Len(content)]_vars

\* a file whose first line is not JSON and whose second is a billable event
\* has been scanned to its end and the event counted
C27_Witness ==
    /\ pc[1] = "save"
    /\ scan.status = "done"
    /\ scan.start = 0
    /\ scan.nlines = 2
    /\ written["a.jsonl"] = <<4, 1>>
    /\ fsize["a.jsonl"] = Len(Bytes(<<4, 1>>))
    /\ DOMAIN cache[1].DayCosts # {}
    /\ cache[1].FileState["a.jsonl"].Offset = fsize["a.jsonl"]

\* --------------------------------------------------------------- SpecResume
\* the snapshot on disk when the first invocation began
Before == IF written["a.jsonl"] # <<>> /\ Head(written["a.jsonl"]) = 4
          THEN ScannedBadLine ELSE EmptyCache

\* the invocation before this one, the first, folded events of the file and,
\* interrupted by a read error, left the file's scan state as it was; this
\* invocation loaded the snapshot it saved
Interrupted(i) ==
    /\ runs = 2
    /\ cache[i].FileState = Before.FileState
    /\ cache[i].ProcessedMessages # {}
    /\ disk.tag = "json"
    /\ cache[i].ProcessedMessages = disk.processed_messages

C38_DailyWeeklyMonthlyOrdered ==
    (Aggregated /\ call.mode \in Modes) =>
        /\ call.result.DailyCost <= call.result.WeeklyCost
        /\ call.result.WeeklyCost <= call.result.MonthlyCost

\* the part of C38 that is about sliding mode
C38_SlidingOrdered ==
    (Aggregated /\ call.mode = "sliding") =>
        /\ call.result.DailyCost <= call.result.WeeklyCost
        /\ call.result.WeeklyCost <= call.result.MonthlyCost

\* ---------------------------------------------------------------- SpecStrip
\* C34: stripVersion removes from a hyphen-delimited model id exactly the
\* segments made of digits only and keeps every other segment, unchanged and
\* in order (x-4-5 becomes x).
C34_StripsNumericSegments ==
    call.op = "stripVersion" =>
        call.result = Join(SelectSeq(call.model, LAMBDA part : part \notin NumericSegs))

\* ---------------------------------------------------------------- SpecEntry
\* the line of the fold just made, decoded
Folded == Decode(hist'[Len(hist')])

FoldStep == Len(hist') = Len(hist) + 1 /\ JsonValid(hist'[Len(hist')])

\* an entry that passes every check before the one of the dedup key and has
\* a token count that is not zero
Billable(e, monthlyCutoff) ==
    /\ e.timestamp # BadTime
    /\ e.timestamp >= monthlyCutoff
    /\ e.type = "assistant"
    /\ e.usage # NoUsage

\* C35: an entry whose message id and request id are both empty (key ":")
\* never adds cost and never enters the DedupSet; an entry with exactly one
\* of the two empty is valid: it is counted once and deduplicated on its
\* partial key.
C35_EmptyAndPartialKeys ==
    /\ [](<<":">> \notin acc.ProcessedMessages)
    /\ [][FoldStep =>
            /\ (Folded.id = <<>> /\ Folded.requestId = <<>>) => acc' = acc
            /\ ( /\ (Folded.id = <<>>) # (Folded.requestId = <<>>)
                 /\ Billable(Folded, accCutoff) )
               => IF DedupKey(Folded) \in acc.ProcessedMessages
                  THEN acc' = acc
                  ELSE /\ acc'.ProcessedMessages
                            = acc.ProcessedMessages \cup {DedupKey(Folded)}
                       /\ acc'.DayCosts
                            = MapAdd(acc.DayCosts, Folded.timestamp, EntryCost(Folded))]_vars

\* an entry without ids has left no trace, and an entry without request id,
\* folded twice, was counted once under its partial key
C35_Witness ==
    /\ hist = <<Format(7), Format(9), Format(9)>>
    /\ acc.ProcessedMessages = {<<"m1", ":">>}
    /\ acc.DayCosts = (3 :> EntryCost(EntryTable[9]))

\* --------------------------------------------------------------------- Spec
Min(S) == CHOOSE x \in S : \A y \in S : x <= y

\* the least that the billable lines dated day may add when every dedup key
\* on a billable line of the files is counted once: each key at the cheapest
\* of its billable lines
BillableCost(monthlyCutoff, day) ==
    LET dated == {e \in FileEntries :
                    /\ e.timestamp = day
                    /\ Billable(e, monthlyCutoff)
                    /\ DedupKey(e) # <<":">>}
        keys == {DedupKey(e) : e \in dated}
    IN  SumFn([k \in keys |-> Min({EntryCost(e) : e \in {x \in dated : DedupKey(x) = k}})])

\* C37: after a scan of a file from offset 0 into an empty snapshot, every
\* dedup key on at least one billable line of the file has added the cost of
\* one such line to DayCosts, whichever lines of the same key come before.
C37_EveryBillableKeyCounted ==
    [][\A i \in Procs :
          ( /\ Opened(i)
            /\ scan'.status = "done"
            /\ scan'.start = 0
            /\ cache[i] = EmptyCache )
          => \A d \in 0..(StartDay + MaxTicks) :
                 BucketOf(cache'[i].DayCosts, d) >= BillableCost(cutoff[i], d)]_vars

\* the decoded billable entries of the lines, newline included, that lie
\* within the first n bytes of file p
CountedWithin(p, n, monthlyCutoff) ==
    LET bytes == SubSeq(FileBytes(p), 1, IF n < fsize[p] THEN n ELSE fsize[p])
        lines == SplitLines(bytes)
        whole == {m \in 1..CompleteLines(lines) : JsonValid(lines[m])}
    IN  {e \in {Decode(lines[m]) : m \in whole} :
            Billable(e, monthlyCutoff) /\ DedupKey(e) # <<":">>}

\* FileState and the DedupSet of snapshot c agree
Consistent(c) ==
    \A p \in DOMAIN c.FileState :
        \A e \in CountedWithin(p, c.FileState[p].Offset, now - MonthLen) :
            DedupKey(e) \in c.ProcessedMessages

\* C36: over append-only logs, in every snapshot, in memory and as
\* persisted, for every file with a FileState the dedup key of every complete
\* billable line within the first Offset bytes of the file is in the
\* DedupSet.
C36_FileStateAgreesWithDedupSet ==
    /\ \A i \in Procs : Consistent(cache[i])
    /\ disk.tag = "json" => Consistent(loadCostCache(disk))

\* ----------------------------------------------------------------- SpecLock
\* process i is between its call of loadCostCache and its return
Running(i) == pc[i] \in {"load", "cleanup", "walk", "proc", "save", "write",
                         "aggregate", "unlock"}

\* C32: when acquireLock succeeds the lock is held from before
\* loadCostCache until after saveCostCache, without a break, and it is
\* released before GetTokenStats returns, on every path.
C32_LockHeldLoadToSave ==
    /\ [](\A i \in Procs : i \in held => Running(i))
    /\ [](\A i \in Procs : pc[i] = "idle" => i \notin held)
    /\ [][\A i \in Procs :
             /\ (i \notin held /\ i \in held') => (pc[i] = "lock" /\ pc'[i] = "load")
             /\ (i \in held /\ i \notin held') => (pc[i] = "unlock" /\ pc'[i] = "idle")
             /\ (i \in held /\ pc[i] = "unlock") => (pc'[i] = "idle" => i \notin held')]_vars

\* an invocation has saved the snapshot and aggregated under the lock it
\* took before loading, while the other one is being refused the lock
C32_Witness ==
    \E i, j \in Procs :
        /\ i # j
        /\ i \in held
        /\ pc[i] = "unlock"
        /\ disk.tag = "json"
        /\ pc[j] = "lock"
        /\ attempts[j] > 0

\* ------------------------------------------------------------------ SpecWin
\* the processes that hold a lock acquireLock returned
Holders == {i \in WinProcs : wpc[i] = "held"}

\* C33: in the Windows build, under every interleaving of acquireLock, its
\* removal of a lock file older than 30 seconds included, and releaseLock,
\* at most one process at a time holds a lock returned by acquireLock.
C33_WinLockExclusive ==
    /\ Cardinality(Holders) <= 1
    /\ handles = Holders
    /\ Holders # {} => lockfile.exists

\* a process is about to remove the lock file it found stale, left by a
\* process that died, while another has since removed and created it anew
\* and holds it
C33_Witness ==
    \E i, j, k \in WinProcs :
        /\ wpc[i] = "dead"
        /\ wpc[j] = "held"
        /\ wpc[k] = "remove"
        /\ lockfile = FreshLockFile

\* ---------------------------------------------------------------- SpecCrash
\* the cache file an invocation that starts now, meets no failure and finds
\* the cache file as file, leaves when it returns
NextRun(file) ==
    LET monthlyCutoff == now - MonthLen
        p == WalkOrder[1]
        loaded == cleanupOldDays(loadCostCache(file), monthlyCutoff)
        scanned == IF mtime[p] < monthlyCutoff THEN loaded
                   ELSE processLogFile(p, FileInfo(p), loaded, loadPricing(pfile, now).pricing,
                                       monthlyCutoff, FileBytes(p), TRUE, 0).cache
    IN  Marshal(scanned)

\* C31: if an invocation crashes anywhere between loadCostCache and the end
\* of saveCostCache, the next invocation that completes persists the snapshot
\* it would have persisted had the crashed invocation never run; here for the
\* crash that follows the opening of the cache file by saveCostCache.
C31_CrashedRunLeavesNoTrace ==
    [][\A i \in Procs :
          (pc[i] = "save" /\ pc'[i] = "write") => NextRun(disk') = NextRun(disk)]_vars
====
